---------------------------- MODULE Spec2Model ----------------------------
(***************************************************************************)
(* Model of the camera sample's picture gallery, the React component       *)
(* PicturesBottomPanel (PicturesBottomPanel.tsx), together with the        *)
(* ImageCache store and the ImageMarkerApi event source it talks to.       *)
(*                                                                         *)
(* A URL is the sequence of its UTF-16 code units, so that the default     *)
(* Array.prototype.sort() order (code-unit lexicographic) is computed, not *)
(* assumed.  A reload is issued (getImages is called) in one step and      *)
(* applied or rejected in a later one; a confirmation dialog or the        *)
(* picture picker is opened in one step and answered in another; the store *)
(* call of a delete handler is made with the answer and ends in a step of  *)
(* its own, which issues the reload.  The module also models               *)
(* IModelDownloader with downloadIModel, one step per await.               *)
(***************************************************************************)
EXTENDS Integers, Sequences, FiniteSets, TLC

VARIABLES
    store,           \* ImageCache: the set of picture URLs stored for the iModel
    pictureUrls,     \* React state pictureUrls (line 40)
    selectMode,      \* React state selectMode (line 48)
    selectedUrls,    \* React state selectedUrls (line 49)
    decoratorActive, \* React state decoratorActive (line 47)
    markerEnabled,   \* ImageMarkerApi.enabled (process-wide)
    reloads,         \* reload() calls awaiting getImages, in issue order
    deletes,         \* delete handlers awaiting their store call, in issue order
    dialog,          \* the modal alert / picker a handler is awaiting, if any
    last             \* history: the step taken last and what it did

\* IModelDownloader and the downloadIModel call it starts. downloadIModel
\* calls itself (line 74); downloader, canceled and the variables about them
\* are those of the call made last.
VARIABLES
    isMounted,       \* isMountedRef.current (line 102)
    canceledRef,     \* canceledRef.current (line 101)
    progress,        \* React state progress (line 98)
    indeterminate,   \* React state indeterminate (line 99)
    onDownloadedArg, \* the briefcase onDownloaded was called with, if it was
    fetched,         \* fetchIModel ran past its await (lines 130-132)
    pc,              \* the await the download stands at
    depth,           \* the number of recursive downloadIModel calls made (line 74)
    retrying,        \* the calls suspended at line 74 on the call they made
    retryResult,     \* what the call awaited at line 74 settled with
    downloader,      \* downloader is assigned (lines 46, 49)
    canceled,        \* canceled (lines 42, 47)
    refused,         \* history: handleProgress returned false to this call
    cancelYielded,   \* its progressCallbacks suspended at line 41 on undefined
    cancelAwaited,   \* its progressCallbacks awaiting requestCancel() (line 41)
    cancelRequested, \* requestCancel() was called on the downloader
    caught,          \* the error the call caught (line 65)
    returned,        \* what the first downloadIModel call settled with
    alerted,         \* presentError was called (line 82)
    dlast            \* history: the downloader step taken last

gvars == <<store, pictureUrls, selectMode, selectedUrls, decoratorActive,
           markerEnabled, reloads, deletes, dialog, last>>

dvars == <<isMounted, canceledRef, progress, indeterminate, onDownloadedArg,
           fetched, pc, depth, retrying, retryResult, downloader, canceled,
           refused, cancelYielded, cancelAwaited, cancelRequested, caught,
           returned, alerted, dlast>>

vars == <<gvars, dvars>>

---------------------------------------------------------------------------
(* Bounds *)

\* Store calls (getImages of a reload, deleteImages or deleteAllImages of a
\* delete handler) that may be awaited at once.
MaxReloads == 2

\* Longest list getImages answers with in SpecReload.
MaxList == 3

\* downloadIModel calls in one download: the first and its recursive retries.
MaxAttempts == 3

\* Largest total (and loaded) a DownloadProgressInfo reports.
MaxTotal == 3

\* progressCallback invocations of one downloadIModel call that may be
\* suspended at line 41 at once.
MaxCancels == 2

---------------------------------------------------------------------------
(* URLs *)

\* "a"
UrlA == <<97>>
\* "b"
UrlB == <<98>>
\* "ab"
UrlAB == <<97, 98>>

\* The pictures that can exist for the iModel in Spec.
Urls == {UrlA, UrlB}

\* The strings getImages may answer with in SpecReload.
AllUrls == {UrlA, UrlAB, UrlB}

Range(s) == {s[i] : i \in 1..Len(s)}

\* s without its i-th element.
RemoveAt(s, i) == SubSeq(s, 1, i - 1) \o SubSeq(s, i + 1, Len(s))

\* All lists over S of length 0..n.
ListsUpTo(S, n) == UNION {[1..k -> S] : k \in 0..n}

---------------------------------------------------------------------------
(* Array.prototype.sort() with no comparator, as called by reload() *)

\* String comparison u < v by UTF-16 code units: the first differing unit
\* decides; a proper prefix is smaller.
RECURSIVE LexLessFrom(_, _, _)
LexLessFrom(u, v, i) ==
    IF i > Len(v) THEN FALSE
    ELSE IF i > Len(u) THEN TRUE
    ELSE IF u[i] # v[i] THEN u[i] < v[i]
    ELSE LexLessFrom(u, v, i + 1)

LexLess(u, v) == LexLessFrom(u, v, 1)

\* Insert u into the ascending list s, after the elements equal to it.
RECURSIVE InsertSorted(_, _)
InsertSorted(u, s) ==
    IF s = <<>> THEN <<u>>
    ELSE IF LexLess(u, Head(s)) THEN <<u>> \o s
    ELSE <<Head(s)>> \o InsertSorted(u, Tail(s))

RECURSIVE SortFrom(_, _)
SortFrom(s, acc) ==
    IF s = <<>> THEN acc ELSE SortFrom(Tail(s), InsertSorted(Head(s), acc))

\* A mutant of ArraySort: the list is left in the store's order.
ArraySortNone(s) == s

\* urls.sort(): ascending, every element kept.
ArraySort(s) == SortFrom(s, <<>>)

---------------------------------------------------------------------------
(* ImageCache, the store *)

\* getImages(iModelId): the stored URLs, each once, in an order the store picks.
Listings(st) == {l \in ListsUpTo(st, Cardinality(st)) : Range(l) = st /\ Len(l) = Cardinality(st)}

\* deleteImages(urls): the stored URLs the call addresses.
DeleteImagesTarget(st, urls) == st \cap urls

\* deleteAllImages(iModelId): every stored URL of the iModel.
DeleteAllImagesTarget(st) == st

---------------------------------------------------------------------------
(* History records *)

NoDialog == [kind |-> "none", url |-> <<>>, sel |-> {}, all |-> FALSE, lib |-> FALSE]

NoLast == [op |-> "none", url |-> <<>>, list |-> <<>>, mode |-> FALSE, sel |-> {},
           calls |-> <<>>, yes |-> FALSE, resolved |-> TRUE, overtaken |-> FALSE,
           dlg |-> NoDialog]

Did(op) == [NoLast EXCEPT !.op = op]

\* A reload() call awaiting getImages: the list the store answers with, and
\* whether a reload issued after it has already been applied.
Pending(l) == [urls |-> l, overtaken |-> FALSE]


---------------------------------------------------------------------------
(* The component's pure pieces *)

\* A mutant of ReloadSelectMode: an empty list does not leave select mode.
ReloadSelectModeKept(urls, mode) == mode

\* reload(), lines 55-56: selectMode after a reload that fetched urls.
ReloadSelectMode(urls, mode) == IF Len(urls) = 0 THEN FALSE ELSE mode

\* reload(), lines 55-57: selectedUrls after a reload that fetched urls.
ReloadSelectedUrls(urls, sel) == IF Len(urls) = 0 THEN {} ELSE sel

\* A mutant of TogglePictureSelected: the clicked picture is always added.
TogglePictureSelectedAdd(sel, u) == sel \cup {u}

\* togglePictureSelected, lines 69-76.
TogglePictureSelected(sel, u) == IF u \in sel THEN sel \ {u} ELSE sel \cup {u}

\* Line 166: const all = pictureUrls.length === selectedUrls.size.
IsAll(pics, sel) == Len(pics) = Cardinality(sel)

\* Lines 167 and 170: the alert the select-mode delete handler presents first.
\* "all && await alert(deleteAll...)" presents the first alert only when all;
\* "!all && await alert(deleteSelected...)" the second only when not all.
FirstAlert(all) == IF all THEN "deleteAll" ELSE "deleteSelected"

\* Lines 167-170: the alert presented after the user answered no to dlg.
\* Only the delete-all alert has an else branch, and that branch tests !all
\* before it presents anything.
AlertAfterNo(dlg) ==
    IF dlg.kind = "deleteAll" /\ ~dlg.all
    THEN [dlg EXCEPT !.kind = "deleteSelected"]
    ELSE NoDialog

DeleteImagesCall(urls) == [fn |-> "deleteImages", urls |-> urls]

DeleteAllImagesCall == [fn |-> "deleteAllImages", urls |-> {}]

\* A mutant of DeleteCalls: the selected pictures are deleted one call, and
\* then all of them.
DeleteCallsBoth(dlg) ==
    IF dlg.kind = "deleteOne" THEN <<DeleteImagesCall({dlg.url})>>
    ELSE <<DeleteImagesCall(dlg.sel), DeleteAllImagesCall>>

\* Lines 106, 168 and 171: the store calls a delete handler makes once the
\* user has answered yes to dlg.  The handlers read the pictureUrl and the
\* selectedUrls of the render in which the button was pressed.
DeleteCalls(dlg) ==
    IF dlg.kind = "deleteOne" THEN <<DeleteImagesCall({dlg.url})>>
    ELSE IF dlg.kind = "deleteAll" THEN <<DeleteAllImagesCall>>
    ELSE <<DeleteImagesCall(dlg.sel)>>

\* The stored URLs a store call addresses.
CallTarget(st, call) ==
    IF call.fn = "deleteAllImages" THEN DeleteAllImagesTarget(st)
    ELSE DeleteImagesTarget(st, call.urls)

\* A mutant of Proceeds: the test of the alert's answer is inverted.
ProceedsInverted(yes) == ~yes

\* Lines 105, 167 and 170: "if (await presentYesNoAlert(...))".
Proceeds(yes) == yes

\* A mutant of ReloadApplies: a fetch that a later reload has overtaken is
\* dropped.
ReloadAppliesIfCurrent(overtaken) == ~overtaken

\* reload(), lines 52-54: the fetched list is applied as soon as getImages
\* resolves; nothing compares the call with the reloads issued after it.
ReloadApplies(overtaken) == TRUE

\* Lines 106-107, 168-169, 171-172: "await ImageCache.delete...; void reload()".
\* reload() is reached when the awaited promise resolves; a rejection leaves
\* the handler at the await.
ReloadsAfterDelete(resolved) == resolved

\* A mutant of ReloadsAfterPick: the reload does not test pickImage's result.
ReloadsAfterPickAlways(result) == TRUE

\* Lines 135-136, 140-141: "if (await ImageCache.pickImage(...)) void reload()".
ReloadsAfterPick(result) == result = "added"

---------------------------------------------------------------------------
(* reload() *)

\* One more store call may be awaited.  A handler that opens an alert or the
\* picker takes its place at the press, so that it can go on to its store call
\* whenever it is answered.
CanReload == Len(reloads) + Len(deletes) < MaxReloads

\* reload(), line 52: getImages is called; the values reloads may take.
Reloaded(rs, st) == {Append(rs, Pending(l)) : l \in Listings(st)}

\* reloads once the i-th call has been answered: the calls issued before it
\* and still waiting have been overtaken.
Answered(rs, i) ==
    RemoveAt([j \in 1..Len(rs) |->
                 IF j < i THEN [rs[j] EXCEPT !.overtaken = TRUE] ELSE rs[j]], i)

\* reload(), lines 53-59: the i-th getImages call resolves.
ReloadResolve(i) ==
    /\ i \in 1..Len(reloads)
    /\ LET urls == ArraySort(reloads[i].urls) IN
        IF ReloadApplies(reloads[i].overtaken)
        THEN /\ pictureUrls' = urls
             /\ selectMode' = ReloadSelectMode(urls, selectMode)
             /\ selectedUrls' = ReloadSelectedUrls(urls, selectedUrls)
        ELSE UNCHANGED <<pictureUrls, selectMode, selectedUrls>>
    /\ reloads' = Answered(reloads, i)
    /\ last' = [Did("reloadDone") EXCEPT !.list = reloads[i].urls,
                                         !.mode = selectMode,
                                         !.overtaken = reloads[i].overtaken]
    /\ UNCHANGED <<dvars, deletes, store, decoratorActive, markerEnabled, dialog>>

\* reload(), line 52: the i-th getImages call rejects; reload() ends there
\* and nothing is applied.
ReloadRejects(i) ==
    /\ i \in 1..Len(reloads)
    /\ reloads' = RemoveAt(reloads, i)
    /\ last' = [Did("reloadRejected") EXCEPT !.resolved = FALSE]
    /\ UNCHANGED <<dvars, deletes, store, pictureUrls, selectMode, selectedUrls,
                   decoratorActive, markerEnabled, dialog>>

\* Line 66: a marker, and with it a picture, was added; the handler reloads.
MarkerAdded(u) ==
    /\ dialog.kind = "none"
    /\ u \in Urls \ store
    /\ CanReload
    /\ store' = store \cup {u}
    /\ reloads' \in Reloaded(reloads, store')
    /\ last' = Did("markerAdded")
    /\ UNCHANGED <<dvars, deletes, pictureUrls, selectMode, selectedUrls, decoratorActive,
                   markerEnabled, dialog>>

---------------------------------------------------------------------------
(* The picture list, lines 89-118 *)

\* handlePictureClick, lines 79-85.
PictureClick(u) ==
    /\ dialog.kind = "none"
    /\ u \in Range(pictureUrls)
    /\ IF selectMode
       THEN /\ selectedUrls' = TogglePictureSelected(selectedUrls, u)
            /\ last' = [Did("toggleSelected") EXCEPT !.url = u]
       ELSE /\ selectedUrls' = selectedUrls
            /\ last' = [Did("imageSelected") EXCEPT !.url = u]
    /\ UNCHANGED <<dvars, deletes, store, pictureUrls, selectMode, decoratorActive,
                   markerEnabled, reloads, dialog>>

\* Lines 94-100: the share button of one picture, shown outside select mode.
ShareOne(u) ==
    /\ dialog.kind = "none"
    /\ ~selectMode
    /\ u \in Range(pictureUrls)
    /\ last' = [Did("share") EXCEPT !.calls = <<[fn |-> "shareImages", urls |-> {u}]>>]
    /\ UNCHANGED <<dvars, deletes, store, pictureUrls, selectMode, selectedUrls, decoratorActive,
                   markerEnabled, reloads, dialog>>

\* Lines 101-105: the delete button of one picture, up to its alert.
DeleteOnePress(u) ==
    /\ dialog.kind = "none"
    /\ ~selectMode
    /\ u \in Range(pictureUrls)
    /\ CanReload
    /\ dialog' = [NoDialog EXCEPT !.kind = "deleteOne", !.url = u]
    /\ last' = Did("deleteOnePress")
    /\ UNCHANGED <<dvars, deletes, store, pictureUrls, selectMode, selectedUrls, decoratorActive,
                   markerEnabled, reloads>>

---------------------------------------------------------------------------
(* The header buttons, lines 126-178 *)

\* A mutant of EditToggle: the edit button is rendered with no pictures too.
EditToggleAlways ==
    /\ dialog.kind = "none"
    /\ selectMode' = ~selectMode
    /\ last' = Did("editToggle")
    /\ UNCHANGED <<dvars, deletes, store, pictureUrls, selectedUrls, decoratorActive,
                   markerEnabled, reloads, dialog>>

\* Lines 128-132: the edit button, rendered while there are pictures.
EditToggle ==
    /\ dialog.kind = "none"
    /\ Len(pictureUrls) > 0
    /\ selectMode' = ~selectMode
    /\ last' = Did("editToggle")
    /\ UNCHANGED <<dvars, deletes, store, pictureUrls, selectedUrls, decoratorActive,
                   markerEnabled, reloads, dialog>>

\* Lines 134-143: the camera and the photo library button, up to the picker.
PickPress(lib) ==
    /\ dialog.kind = "none"
    /\ ~selectMode
    /\ CanReload
    /\ dialog' = [NoDialog EXCEPT !.kind = "pick", !.lib = lib]
    /\ last' = Did("pickPress")
    /\ UNCHANGED <<dvars, deletes, store, pictureUrls, selectMode, selectedUrls, decoratorActive,
                   markerEnabled, reloads>>

\* Lines 135-136, 140-141: pickImage returns true with a picture added, or
\* false with none, or its promise rejects.
PickReturns(result, u) ==
    /\ dialog.kind = "pick"
    /\ \/ result = "added" /\ u \in Urls \ store /\ store' = store \cup {u}
       \/ result \in {"none", "rejected"} /\ u = <<>> /\ store' = store
    /\ IF ReloadsAfterPick(result)
       THEN CanReload /\ reloads' \in Reloaded(reloads, store')
       ELSE reloads' = reloads
    /\ dialog' = NoDialog
    /\ last' = [Did("pickDone") EXCEPT !.url = u, !.resolved = (result # "rejected")]
    /\ UNCHANGED <<dvars, deletes, pictureUrls, selectMode, selectedUrls, decoratorActive,
                   markerEnabled>>

\* A mutant of DecoratorToggle: the local state is negated, not mirrored.
DecoratorToggleLocal ==
    /\ dialog.kind = "none"
    /\ ~selectMode
    /\ markerEnabled' = ~markerEnabled
    /\ decoratorActive' = ~decoratorActive
    /\ last' = Did("decoratorToggle")
    /\ UNCHANGED <<dvars, deletes, store, pictureUrls, selectMode, selectedUrls, reloads, dialog>>

\* Lines 144-149: the visibility button.
DecoratorToggle ==
    /\ dialog.kind = "none"
    /\ ~selectMode
    /\ markerEnabled' = ~markerEnabled
    /\ decoratorActive' = markerEnabled'
    /\ last' = Did("decoratorToggle")
    /\ UNCHANGED <<dvars, deletes, store, pictureUrls, selectMode, selectedUrls, reloads, dialog>>

\* Lines 152-157: the select-all button.
SelectAllToggle ==
    /\ dialog.kind = "none"
    /\ selectMode
    /\ Len(pictureUrls) > 0
    /\ selectedUrls' = IF Cardinality(selectedUrls) = Len(pictureUrls)
                       THEN {}
                       ELSE Range(pictureUrls)
    /\ last' = [Did("selectAll") EXCEPT !.sel = selectedUrls]
    /\ UNCHANGED <<dvars, deletes, store, pictureUrls, selectMode, decoratorActive,
                   markerEnabled, reloads, dialog>>

\* Lines 158-161: the share button of select mode.
ShareSelected ==
    /\ dialog.kind = "none"
    /\ selectMode
    /\ Cardinality(selectedUrls) > 0
    /\ last' = [Did("share") EXCEPT
                  !.calls = <<[fn |-> "shareImages", urls |-> selectedUrls]>>]
    /\ UNCHANGED <<dvars, deletes, store, pictureUrls, selectMode, selectedUrls, decoratorActive,
                   markerEnabled, reloads, dialog>>

\* Lines 162-167 and 170: the delete button of select mode, up to its alert.
DeleteSelectedPress ==
    /\ dialog.kind = "none"
    /\ selectMode
    /\ Cardinality(selectedUrls) > 0
    /\ CanReload
    /\ dialog' = [NoDialog EXCEPT !.kind = FirstAlert(IsAll(pictureUrls, selectedUrls)),
                                  !.sel = selectedUrls,
                                  !.all = IsAll(pictureUrls, selectedUrls)]
    /\ last' = Did("deleteSelectedPress")
    /\ UNCHANGED <<dvars, deletes, store, pictureUrls, selectMode, selectedUrls, decoratorActive,
                   markerEnabled, reloads>>

DeleteDialogs == {"deleteOne", "deleteAll", "deleteSelected"}

\* Lines 105-106, 167-168 and 170-171: the user answers the alert.  When the
\* handler proceeds it calls the store and awaits the call; the alert is
\* closed and the component goes on handling events meanwhile.
Answer(yes) ==
    /\ dialog.kind \in DeleteDialogs
    /\ IF Proceeds(yes)
       THEN /\ CanReload
            /\ deletes' = Append(deletes, DeleteCalls(dialog))
            /\ dialog' = NoDialog
            /\ last' = [Did("answer") EXCEPT !.dlg = dialog, !.yes = yes,
                                             !.calls = DeleteCalls(dialog)]
       ELSE /\ dialog' = AlertAfterNo(dialog)
            /\ last' = [Did("answer") EXCEPT !.dlg = dialog, !.yes = yes]
            /\ UNCHANGED deletes
    /\ UNCHANGED <<dvars, store, reloads, pictureUrls, selectMode, selectedUrls,
                   decoratorActive, markerEnabled>>

AnswerYes == Answer(TRUE)

AnswerNo == Answer(FALSE)

\* Lines 106-107, 168-169 and 171-172: the store call of the k-th waiting
\* delete handler ends.  The store has removed the pictures in removed (all
\* of those the call addresses, or only some) and the awaited promise
\* resolves, after which the handler calls reload(), or rejects.
DeleteEnds(k, removed, resolved) ==
    /\ k \in 1..Len(deletes)
    /\ removed \subseteq
           UNION {CallTarget(store, deletes[k][c]) : c \in 1..Len(deletes[k])}
    /\ store' = store \ removed
    /\ deletes' = RemoveAt(deletes, k)
    /\ IF ReloadsAfterDelete(resolved)
       THEN reloads' \in Reloaded(reloads, store')
       ELSE reloads' = reloads
    /\ last' = [Did("deleteDone") EXCEPT !.resolved = resolved]
    /\ UNCHANGED <<dvars, pictureUrls, selectMode, selectedUrls, decoratorActive,
                   markerEnabled, dialog>>

---------------------------------------------------------------------------
(* IModelDownloader and downloadIModel *)

\* What a rejected await of downloadIModel throws: a BentleyError with
\* errorNumber FileAlreadyExists, DownloadCancelled or another number, or an
\* error that is no BentleyError.
ErrorKinds == {"FileAlreadyExists", "DownloadCancelled", "OtherBentley", "NotBentley"}

\* Line 66: "error instanceof BentleyError".
IsBentleyError(err) == err # "NotBentley"

\* The DownloadProgressInfo values a progress event carries; total 0 is an
\* unknown total.
ProgressInfos ==
    {info \in [loaded : 0..MaxTotal, total : 0..MaxTotal] :
        info.total = 0 \/ info.loaded <= info.total}

\* Line 109: total !== 0 ? Math.round(100.0 * loaded / total) : 0, with
\* Math.round(x) = floor(x + 1/2).
Percent(info) ==
    IF info.total # 0
    THEN (200 * info.loaded + info.total) \div (2 * info.total)
    ELSE 0

\* Line 113: the value handleProgress returns.
HandleProgressReturns(mounted, canceledR) == mounted /\ ~canceledR

\* A mutant of AppliesDownloaded: onDownloaded is called after unmount too.
AppliesDownloadedAlways(mounted) == TRUE

\* Lines 131-132: fetchIModel calls onDownloaded only while mounted.
AppliesDownloaded(mounted) == mounted

\* Lines 65-82: what the catch block does with the error: delete the
\* leftover briefcase and call downloadIModel again, return undefined
\* silently, or present the error and return undefined. No path of the catch
\* block throws the error again ("rethrow").
CatchAction(err, c) ==
    IF IsBentleyError(err) /\ err = "FileAlreadyExists" THEN "retry"
    ELSE IF IsBentleyError(err) /\ err = "DownloadCancelled" /\ c THEN "ignore"
    ELSE "present"

\* A mutant of RetryOutcome: line 74 without its return, "await
\* downloadIModel(...)": the call falls through to lines 82-84.
RetryOutcomeDropped(res) == [alert |-> TRUE, value |-> "undefined"]

\* Lines 74-75 and 82-84, "return await downloadIModel(...)" inside try with
\* an empty catch: the call returns what the call it awaited resolved to; had
\* that call rejected, the empty catch would fall through to presentError and
\* undefined.
RetryOutcome(res) ==
    IF res = "rejected"
    THEN [alert |-> TRUE, value |-> "undefined"]
    ELSE [alert |-> FALSE, value |-> res]

DDid(op) == [op |-> op, ret |-> TRUE]

\* The awaits of the try block, lines 49, 58 and 59.
TryPcs == {"requesting", "downloading", "listing"}

\* The awaits of the retry branch before the recursive call: line 20 and
\* line 24 (both under the await of line 72) and line 73.
RetryPcs == {"finding", "naming", "deleting"}

\* A further progressCallback may be suspended at line 41.
CanSuspend == cancelYielded + cancelAwaited < MaxCancels

\* A downloadIModel call settles with v while n calls are suspended at line
\* 74: the first call's promise settles (fetchIModel awaits it, line 130), a
\* recursive call's is what the call that made it awaits.
Settles(n, v) ==
    IF n = 0
    THEN /\ pc' = "done"
         /\ returned' = v
         /\ UNCHANGED retryResult
    ELSE /\ pc' = "retried"
         /\ retryResult' = v
         /\ UNCHANGED returned

\* Lines 39-41 with handleProgress, lines 107-113: a progress event. When
\* handleProgress returns false the callback suspends at line 41: on the
\* promise of requestCancel(), which it has called, when downloader is
\* assigned, on undefined while it is not. Line 42 runs when it resumes.
ProgressCallback(info) ==
    /\ pc \in TryPcs
    /\ IF isMounted
       THEN /\ progress' = Percent(info)
            /\ indeterminate' = (info.total = 0)
       ELSE UNCHANGED <<progress, indeterminate>>
    /\ LET ret == HandleProgressReturns(isMounted, canceledRef) IN
        /\ dlast' = [op |-> "progress", ret |-> ret]
        /\ IF ret
           THEN UNCHANGED <<refused, cancelYielded, cancelAwaited, cancelRequested>>
           ELSE /\ CanSuspend
                /\ refused' = TRUE
                /\ IF downloader
                   THEN /\ cancelRequested' = TRUE
                        /\ cancelAwaited' = cancelAwaited + 1
                        /\ UNCHANGED cancelYielded
                   ELSE /\ cancelYielded' = cancelYielded + 1
                        /\ UNCHANGED <<cancelAwaited, cancelRequested>>
    /\ UNCHANGED <<gvars, isMounted, canceledRef, onDownloadedArg, fetched, pc,
                   depth, retrying, retryResult, downloader, canceled, caught,
                   returned, alerted>>

\* Lines 41-42 while downloader was undefined: "await undefined" resumes and
\* the callback sets canceled. Continuations queued before it (that of line
\* 49, or the catch) run first.
CancelYieldResumes ==
    /\ cancelYielded > 0
    /\ cancelYielded' = cancelYielded - 1
    /\ canceled' = TRUE
    /\ dlast' = DDid("cancelYieldResumed")
    /\ UNCHANGED <<gvars, isMounted, canceledRef, progress, indeterminate,
                   onDownloadedArg, fetched, pc, depth, retrying, retryResult,
                   downloader, refused, cancelAwaited, cancelRequested, caught,
                   returned, alerted>>

\* Lines 41-42: an awaited requestCancel() resolves and its callback sets
\* canceled. The promises of requestCancel() and downloadPromise belong to
\* the BriefcaseDownloader; nothing in downloadIModel orders their
\* settlements, so this step and Rejects occur in either order.
RequestCancelResolves ==
    /\ cancelAwaited > 0
    /\ cancelAwaited' = cancelAwaited - 1
    /\ canceled' = TRUE
    /\ dlast' = DDid("cancelResolved")
    /\ UNCHANGED <<gvars, isMounted, canceledRef, progress, indeterminate,
                   onDownloadedArg, fetched, pc, depth, retrying, retryResult,
                   downloader, refused, cancelYielded, cancelRequested, caught,
                   returned, alerted>>

\* Line 41: an awaited requestCancel() rejects; the callback's promise
\* rejects and line 42 does not run.
RequestCancelRejects ==
    /\ cancelAwaited > 0
    /\ cancelAwaited' = cancelAwaited - 1
    /\ dlast' = DDid("cancelRejected")
    /\ UNCHANGED <<gvars, isMounted, canceledRef, progress, indeterminate,
                   onDownloadedArg, fetched, pc, depth, retrying, retryResult,
                   downloader, canceled, refused, cancelYielded,
                   cancelRequested, caught, returned, alerted>>

\* Lines 49-58: requestDownloadBriefcase resolves with the downloader; a call
\* canceled before that requests the cancellation and returns undefined,
\* any other goes on to await downloadPromise.
RequestReturns ==
    /\ pc = "requesting"
    /\ downloader' = TRUE
    /\ IF canceled
       THEN /\ cancelRequested' = TRUE
            /\ Settles(retrying, "undefined")
       ELSE /\ pc' = "downloading"
            /\ UNCHANGED <<cancelRequested, returned, retryResult>>
    /\ dlast' = DDid("requestReturned")
    /\ UNCHANGED <<gvars, isMounted, canceledRef, progress, indeterminate,
                   onDownloadedArg, fetched, depth, retrying, canceled, refused,
                   cancelYielded, cancelAwaited, caught, alerted>>

\* Lines 58-59: downloadPromise resolves and getCachedBriefcases is called
\* and awaited.
DownloadResolves ==
    /\ pc = "downloading"
    /\ pc' = "listing"
    /\ dlast' = DDid("downloadResolved")
    /\ UNCHANGED <<gvars, isMounted, canceledRef, progress, indeterminate,
                   onDownloadedArg, fetched, depth, retrying, retryResult,
                   downloader, canceled, refused, cancelYielded, cancelAwaited,
                   cancelRequested, caught, returned, alerted>>

\* Lines 59-64: getCachedBriefcases answers; the call returns the first
\* cached briefcase, undefined when there is none.
CachedBriefcasesListed(found) ==
    /\ pc = "listing"
    /\ Settles(retrying, IF found THEN "briefcase" ELSE "undefined")
    /\ dlast' = DDid("listed")
    /\ UNCHANGED <<gvars, isMounted, canceledRef, progress, indeterminate,
                   onDownloadedArg, fetched, depth, retrying, downloader,
                   canceled, refused, cancelYielded, cancelAwaited,
                   cancelRequested, caught, alerted>>

\* Lines 65-84: an await of the try block rejects with err. After
\* FileAlreadyExists getBriefcaseFileName is called and awaits
\* getCachedBriefcases (lines 72, 20); the recursion is cut at MaxAttempts
\* calls.
Rejects(err) ==
    /\ pc \in TryPcs
    /\ (err = "FileAlreadyExists") => depth + 1 < MaxAttempts
    /\ caught' = err
    /\ LET do == CatchAction(err, canceled) IN
        /\ alerted' = IF do = "present" THEN TRUE ELSE alerted
        /\ IF do = "retry"
           THEN /\ pc' = "finding"
                /\ UNCHANGED <<returned, retryResult>>
           ELSE Settles(retrying, IF do = "rethrow" THEN "rejected" ELSE "undefined")
    /\ dlast' = DDid("rejected")
    /\ UNCHANGED <<gvars, isMounted, canceledRef, progress, indeterminate,
                   onDownloadedArg, fetched, depth, retrying, downloader,
                   canceled, refused, cancelYielded, cancelAwaited,
                   cancelRequested>>

\* Lines 75 and 82-84: an await of the retry branch rejects; the empty catch
\* falls through to presentError and the call returns undefined.
RetryFails ==
    /\ alerted' = TRUE
    /\ Settles(retrying, "undefined")
    /\ UNCHANGED <<depth, retrying, downloader, canceled, refused,
                   cancelYielded, cancelAwaited, cancelRequested, caught>>

\* The retry branch goes on to its next await, pcv.
RetryGoesOn(pcv) ==
    /\ pc' = pcv
    /\ UNCHANGED <<depth, retrying, retryResult, downloader, canceled, refused,
                   cancelYielded, cancelAwaited, cancelRequested, caught,
                   returned, alerted>>

\* Lines 20-24: getCachedBriefcases answers getBriefcaseFileName. With a
\* cached briefcase its file name is returned and deleteBriefcase is called
\* (line 73); with none NativeApp.getBriefcaseFileName is called (line 24).
CachedBriefcasesFound(answer) ==
    /\ pc = "finding"
    /\ IF answer = "rejected"
       THEN RetryFails
       ELSE RetryGoesOn(IF answer = "cached" THEN "deleting" ELSE "naming")
    /\ dlast' = DDid("found")
    /\ UNCHANGED <<gvars, isMounted, canceledRef, progress, indeterminate,
                   onDownloadedArg, fetched>>

\* Lines 24 and 72-73: NativeApp.getBriefcaseFileName answers and
\* deleteBriefcase is called.
BriefcaseFileNameReturns(ok) ==
    /\ pc = "naming"
    /\ IF ok THEN RetryGoesOn("deleting") ELSE RetryFails
    /\ dlast' = DDid("named")
    /\ UNCHANGED <<gvars, isMounted, canceledRef, progress, indeterminate,
                   onDownloadedArg, fetched>>

\* Lines 73-74 and 37-49: deleteBriefcase resolves and downloadIModel is
\* called again: a new call with its own downloader and canceled, awaiting
\* requestDownloadBriefcase, while the call that made it is suspended at
\* line 74.
DeleteBriefcase(ok) ==
    /\ pc = "deleting"
    /\ IF ok
       THEN /\ depth' = depth + 1
            /\ retrying' = retrying + 1
            /\ pc' = "requesting"
            /\ downloader' = FALSE
            /\ canceled' = FALSE
            /\ refused' = FALSE
            /\ cancelYielded' = 0
            /\ cancelAwaited' = 0
            /\ cancelRequested' = FALSE
            /\ caught' = "none"
            /\ UNCHANGED <<retryResult, returned, alerted>>
       ELSE RetryFails
    /\ dlast' = DDid(IF ok THEN "retry" ELSE "deleteFailed")
    /\ UNCHANGED <<gvars, isMounted, canceledRef, progress, indeterminate,
                   onDownloadedArg, fetched>>

\* Lines 74-75 and 82-84: the call awaited at line 74 has settled and the
\* call suspended there resumes and returns.
RetryReturns ==
    /\ pc = "retried"
    /\ retrying' = retrying - 1
    /\ LET out == RetryOutcome(retryResult) IN
        /\ alerted' = (alerted \/ out.alert)
        /\ Settles(retrying - 1, out.value)
    /\ dlast' = DDid("retryReturned")
    /\ UNCHANGED <<gvars, isMounted, canceledRef, progress, indeterminate,
                   onDownloadedArg, fetched, depth, downloader, canceled,
                   refused, cancelYielded, cancelAwaited, cancelRequested,
                   caught>>

\* Lines 130-132: the first downloadIModel call has settled and fetchIModel
\* resumes; had the call rejected, fetchIModel would end at line 130.
FetchIModelResumes ==
    /\ pc = "done"
    /\ ~fetched
    /\ fetched' = TRUE
    /\ onDownloadedArg' = IF AppliesDownloaded(isMounted) /\ returned # "rejected"
                          THEN returned
                          ELSE onDownloadedArg
    /\ dlast' = DDid("fetched")
    /\ UNCHANGED <<gvars, isMounted, canceledRef, progress, indeterminate, pc,
                   depth, retrying, retryResult, downloader, canceled, refused,
                   cancelYielded, cancelAwaited, cancelRequested, caught,
                   returned, alerted>>

\* Lines 142-145: the cancel button.
CancelPress ==
    /\ isMounted
    /\ canceledRef' = TRUE
    /\ dlast' = DDid("cancelPress")
    /\ UNCHANGED <<gvars, isMounted, progress, indeterminate, onDownloadedArg,
                   fetched, pc, depth, retrying, retryResult, downloader,
                   canceled, refused, cancelYielded, cancelAwaited,
                   cancelRequested, caught, returned, alerted>>

\* Line 102: the component is unmounted.
Unmount ==
    /\ isMounted
    /\ isMounted' = FALSE
    /\ dlast' = DDid("unmount")
    /\ UNCHANGED <<gvars, canceledRef, progress, indeterminate, onDownloadedArg,
                   fetched, pc, depth, retrying, retryResult, downloader,
                   canceled, refused, cancelYielded, cancelAwaited,
                   cancelRequested, caught, returned, alerted>>

\* The component after its first render and its startup effect (lines
\* 98-102, 124-136, 46-49): downloadIModel awaits requestDownloadBriefcase.
DownloaderInit ==
    /\ isMounted = TRUE
    /\ canceledRef = FALSE
    /\ progress = 0
    /\ indeterminate = TRUE
    /\ onDownloadedArg = "notCalled"
    /\ fetched = FALSE
    /\ pc = "requesting"
    /\ depth = 0
    /\ retrying = 0
    /\ retryResult = "pending"
    /\ downloader = FALSE
    /\ canceled = FALSE
    /\ refused = FALSE
    /\ cancelYielded = 0
    /\ cancelAwaited = 0
    /\ cancelRequested = FALSE
    /\ caught = "none"
    /\ returned = "pending"
    /\ alerted = FALSE
    /\ dlast = DDid("mount")

---------------------------------------------------------------------------
(* The gallery with the ImageCache store *)

\* The component after its first render and its mount effect (lines 40-49,
\* 62-64): nothing listed, and one reload awaiting getImages.
Init ==
    /\ store \in SUBSET Urls
    /\ pictureUrls = <<>>
    /\ selectMode = FALSE
    /\ selectedUrls = {}
    /\ decoratorActive = TRUE
    /\ markerEnabled \in BOOLEAN
    /\ reloads \in Reloaded(<<>>, store)
    /\ deletes = <<>>
    /\ dialog = NoDialog
    /\ last = Did("mount")
    /\ DownloaderInit

\* The steps of the user, the marker tool and the store.
Handlers ==
    \/ \E u \in Urls : MarkerAdded(u)
    \/ \E u \in Urls : PictureClick(u)
    \/ \E u \in Urls : ShareOne(u)
    \/ \E u \in Urls : DeleteOnePress(u)
    \/ EditToggle
    \/ \E lib \in BOOLEAN : PickPress(lib)
    \/ \E result \in {"added", "none", "rejected"}, u \in Urls \cup {<<>>} :
          PickReturns(result, u)
    \/ DecoratorToggle
    \/ SelectAllToggle
    \/ ShareSelected
    \/ DeleteSelectedPress
    \/ AnswerYes
    \/ AnswerNo
    \/ \E k \in 1..MaxReloads, removed \in SUBSET Urls, resolved \in BOOLEAN :
          DeleteEnds(k, removed, resolved)

\* getImages calls resolve in any order.
Next ==
    \/ \E i \in 1..MaxReloads : ReloadResolve(i)
    \/ \E i \in 1..MaxReloads : ReloadRejects(i)
    \/ Handlers

Spec == Init /\ [][Next]_vars

\* The behaviours of Spec in which the getImages calls resolve in the order
\* they were issued in.
NextInOrder ==
    \/ ReloadResolve(1)
    \/ ReloadRejects(1)
    \/ Handlers

SpecInOrder == Init /\ [][NextInOrder]_vars

---------------------------------------------------------------------------
(* reload() on every list getImages can answer with *)

\* The lists getImages answers with: the pictures of a store that holds any
\* of the three URLs, each once, in any order.
StoreLists == {l \in ListsUpTo(AllUrls, MaxList) : Len(l) = Cardinality(Range(l))}

\* The store answers the getImages call of reload(), line 52, with one of
\* its lists.
GetImagesAnswers(l) ==
    /\ reloads = <<>>
    /\ reloads' = <<Pending(l)>>
    /\ store' = Range(l)
    /\ last' = [Did("reload") EXCEPT !.list = l]
    /\ UNCHANGED <<dvars, deletes, pictureUrls, selectMode, selectedUrls, decoratorActive,
                   markerEnabled, dialog>>

InitReload ==
    /\ store = {}
    /\ pictureUrls = <<>>
    /\ selectMode = FALSE
    /\ selectedUrls = {}
    /\ decoratorActive = TRUE
    /\ markerEnabled = TRUE
    /\ reloads = <<>>
    /\ deletes = <<>>
    /\ dialog = NoDialog
    /\ last = Did("mount")
    /\ DownloaderInit

NextReload ==
    \/ \E l \in StoreLists : GetImagesAnswers(l)
    \/ \E i \in 1..MaxReloads : ReloadResolve(i)
    \/ \E i \in 1..MaxReloads : ReloadRejects(i)

SpecReload == InitReload /\ [][NextReload]_vars

---------------------------------------------------------------------------
(* The download screen *)

\* IModelDownloader mounted with its download started; the gallery is not on
\* screen.
InitDownload ==
    /\ store = {}
    /\ pictureUrls = <<>>
    /\ selectMode = FALSE
    /\ selectedUrls = {}
    /\ decoratorActive = TRUE
    /\ markerEnabled = TRUE
    /\ reloads = <<>>
    /\ deletes = <<>>
    /\ dialog = NoDialog
    /\ last = NoLast
    /\ DownloaderInit

NextDownload ==
    \/ \E info \in ProgressInfos : ProgressCallback(info)
    \/ CancelYieldResumes
    \/ RequestCancelResolves
    \/ RequestCancelRejects
    \/ RequestReturns
    \/ DownloadResolves
    \/ \E found \in BOOLEAN : CachedBriefcasesListed(found)
    \/ \E err \in ErrorKinds : Rejects(err)
    \/ \E answer \in {"cached", "none", "rejected"} : CachedBriefcasesFound(answer)
    \/ \E ok \in BOOLEAN : BriefcaseFileNameReturns(ok)
    \/ \E ok \in BOOLEAN : DeleteBriefcase(ok)
    \/ RetryReturns
    \/ FetchIModelResumes
    \/ CancelPress
    \/ Unmount

SpecDownload == InitDownload /\ [][NextDownload]_vars

---------------------------------------------------------------------------
(* Properties *)

IsDeleteCall(call) == call.fn \in {"deleteImages", "deleteAllImages"}

\* s is in ascending order (equal neighbours allowed).
IsAscending(s) == \A i \in 1..(Len(s) - 1) : ~LexLess(s[i + 1], s[i])

\* s lists the members of S, each once, in ascending order.
IsSortedListOf(s, S) ==
    /\ Len(s) = Cardinality(S)
    /\ Range(s) = S
    /\ IsAscending(s)

\* No reload awaits getImages and no handler awaits the store, an alert or
\* the picker.
Quiescent == reloads = <<>> /\ deletes = <<>> /\ dialog.kind = "none"

\* C1: in every reachable state selectedUrls is a subset of the listed
\* pictureUrls.
C1_SelectedSubsetOfPictures == selectedUrls \subseteq Range(pictureUrls)

\* C2: right after a reload that fetched the empty list, selectMode is false
\* and selectedUrls is empty, whatever they were before.
C2_EmptyReloadResets ==
    (last.op = "reloadDone" /\ last.list = <<>>)
        => (~selectMode /\ selectedUrls = {})

\* A reload fetched the empty list while select mode was on.
C2_Witness ==
    /\ last.op = "reloadDone"
    /\ last.list = <<>>
    /\ last.mode
    /\ ~selectMode
    /\ selectedUrls = {}

\* C3: after reload() completes the rendered list is the list the store
\* returned sorted ascending (by UTF-16 code units) with duplicates removed.
C3_SortedDeduplicated ==
    last.op = "reloadDone" => IsSortedListOf(pictureUrls, Range(last.list))

\* The store answered ["b", "a", "ab"] and the list rendered is ["a", "ab", "b"].
C3_Witness ==
    /\ last.op = "reloadDone"
    /\ last.list = <<UrlB, UrlA, UrlAB>>
    /\ pictureUrls = <<UrlA, UrlAB, UrlB>>

\* C4: the alert of the select-mode delete button is the delete-all one iff
\* selectedUrls.size equals pictureUrls.length at the press, and after a yes
\* exactly one store call is made: deleteAllImages for the delete-all alert,
\* otherwise deleteImages with exactly the URLs selected at the press.
C4_DeleteAllIffSizesEqual ==
    /\ last.op = "deleteSelectedPress"
        => /\ dialog.kind \in {"deleteAll", "deleteSelected"}
           /\ dialog.kind = "deleteAll" <=> Cardinality(selectedUrls) = Len(pictureUrls)
           /\ dialog.sel = selectedUrls
           /\ dialog.all <=> Cardinality(selectedUrls) = Len(pictureUrls)
    /\ (last.op = "answer" /\ last.yes /\ last.dlg.kind # "deleteOne")
        => last.calls =
             IF last.dlg.all
             THEN <<[fn |-> "deleteAllImages", urls |-> {}]>>
             ELSE <<[fn |-> "deleteImages", urls |-> last.dlg.sel]>>

\* With "a" of ["a", "b"] selected, a confirmed delete called deleteImages(["a"]).
C4_Witness ==
    /\ last.op = "answer"
    /\ last.yes
    /\ pictureUrls = <<UrlA, UrlB>>
    /\ ~last.dlg.all
    /\ last.dlg.sel = {UrlA}
    /\ last.calls = <<[fn |-> "deleteImages", urls |-> {UrlA}]>>

\* C5: deleteAllImages is called only when the selected set the handler holds
\* is the full set of the pictures listed at the call.
C5_DeleteAllOnlyWhenAllSelected ==
    (last.op = "answer" /\ \E k \in 1..Len(last.calls) :
                              last.calls[k].fn = "deleteAllImages")
        => last.dlg.sel = Range(pictureUrls)

\* C6: a store delete call is made only by the handler of an alert that was
\* answered yes; an answer of no makes no store call, issues no reload, opens
\* no further alert and leaves pictureUrls, selectMode and selectedUrls alone.
C6_DeleteOnlyAfterYes ==
    [][/\ (\E k \in 1..Len(last'.calls) : IsDeleteCall(last'.calls[k]))
           => /\ last'.op = "answer"
              /\ last'.yes
              /\ dialog.kind \in DeleteDialogs
              /\ last'.dlg = dialog
       /\ (last'.op = "answer" /\ ~last'.yes)
           => /\ last'.calls = <<>>
              /\ dialog'.kind = "none"
              /\ UNCHANGED <<store, reloads, deletes, pictureUrls, selectMode,
                             selectedUrls>>
      ]_vars

\* The delete-all alert was answered no: every picture is still stored,
\* listed and selected.
C6_Witness ==
    /\ last.op = "answer"
    /\ ~last.yes
    /\ last.dlg.kind = "deleteAll"
    /\ selectMode
    /\ selectedUrls = Range(pictureUrls)
    /\ store = Range(pictureUrls)

\* C7: selectMode turns on only by the edit button, which needs a non-empty
\* picture list, and turns off only by the edit button or by a reload that
\* produces the empty list.
C7_SelectModeTransitions ==
    [][/\ (~selectMode /\ selectMode')
           => (last'.op = "editToggle" /\ Len(pictureUrls) > 0)
       /\ (selectMode /\ ~selectMode')
           => \/ last'.op = "editToggle"
              \/ last'.op = "reloadDone" /\ pictureUrls' = <<>>
      ]_vars

\* A reload that produced the empty list turned select mode off.
C7_Witness ==
    /\ last.op = "reloadDone"
    /\ last.mode
    /\ ~selectMode
    /\ pictureUrls = <<>>

\* C8: when the store call of a delete the user confirmed ends, a reload is
\* issued, whether the store's delete succeeded or failed.
C8_ReloadAfterEveryConfirmedDelete ==
    [][last'.op = "deleteDone"
           => /\ Len(reloads') = Len(reloads) + 1
              /\ reloads'[Len(reloads')].urls \in Listings(store')
      ]_vars

\* C9: when the last reload in flight completes and no handler is waiting,
\* pictureUrls is the sorted content of the store.
C9_ConsistentWhenQuiescent ==
    (last.op = "reloadDone" /\ Quiescent) => IsSortedListOf(pictureUrls, store)

\* C10: the list rendered after a reload resolves is the list that reload
\* fetched, also when a reload issued after it has resolved before it.
C10_LaterResolvedWins ==
    last.op = "reloadDone"
        => (Range(pictureUrls) = Range(last.list) /\ Len(pictureUrls) = Len(last.list))

\* Two reloads were in flight, the one issued second resolved first, and the
\* one issued first resolved last: its older list is the one rendered.
C10_Witness ==
    /\ last.op = "reloadDone"
    /\ last.overtaken
    /\ reloads = <<>>
    /\ Range(pictureUrls) = Range(last.list)
    /\ Range(pictureUrls) # store

\* C11: toggleSelectAll() clears the selection when as many URLs are selected
\* as are listed and otherwise selects exactly the listed URLs; so, called when
\* not every listed picture is selected, it selects all of them (and a second
\* call then clears the selection).
C11_SelectAllSelectsAllWhenNotAll ==
    /\ last.op = "selectAll"
        => selectedUrls = IF Cardinality(last.sel) = Len(pictureUrls)
                          THEN {}
                          ELSE Range(pictureUrls)
    /\ (last.op = "selectAll" /\ ~(Range(pictureUrls) \subseteq last.sel))
        => selectedUrls = Range(pictureUrls)

\* C12: a picture click in select mode flips exactly the clicked URL in
\* selectedUrls and raises no image-selected notification; in browse mode it
\* raises the notification for the URL and changes none of selectedUrls,
\* selectMode and pictureUrls.
C12_ClickTogglesOrNotifies ==
    [][(last'.op \in {"toggleSelected", "imageSelected"})
           => /\ last'.url \in Range(pictureUrls)
              /\ UNCHANGED <<selectMode, pictureUrls>>
              /\ selectMode
                  => /\ last'.op = "toggleSelected"
                     /\ (last'.url \in selectedUrls') <=> (last'.url \notin selectedUrls)
                     /\ selectedUrls' \ {last'.url} = selectedUrls \ {last'.url}
              /\ ~selectMode
                  => /\ last'.op = "imageSelected"
                     /\ selectedUrls' = selectedUrls
      ]_vars

\* In select mode "a" was clicked and left the selection; "b" stayed in it.
C12_Witness ==
    /\ last.op = "toggleSelected"
    /\ last.url = UrlA
    /\ selectMode
    /\ selectedUrls = {UrlB}

\* C13: a pickImage that returns true is followed by a reload of the store as
\* it is then; one that returns false issues no reload and changes nothing of
\* the gallery.
C13_ReloadIffPicked ==
    [][(last'.op = "pickDone" /\ last'.resolved)
           => IF last'.url # <<>>
              THEN /\ Len(reloads') = Len(reloads) + 1
                   /\ SubSeq(reloads', 1, Len(reloads)) = reloads
                   /\ reloads'[Len(reloads')].urls \in Listings(store')
              ELSE UNCHANGED <<reloads, store, pictureUrls, selectMode, selectedUrls>>
      ]_vars

\* The picker returned true with "a" added: a reload that fetched it is in
\* flight.
C13_Witness ==
    /\ last.op = "pickDone"
    /\ last.url = UrlA
    /\ reloads # <<>>
    /\ UrlA \in Range(reloads[Len(reloads)].urls)

\* C14: the visibility button negates ImageMarkerApi.enabled, leaves
\* decoratorActive equal to the new flag, and changes none of pictureUrls,
\* selectMode and selectedUrls.
C14_DecoratorToggleMirrors ==
    [][last'.op = "decoratorToggle"
           => /\ markerEnabled' = ~markerEnabled
              /\ decoratorActive' = markerEnabled'
              /\ UNCHANGED <<pictureUrls, selectMode, selectedUrls>>
      ]_vars

\* The flag was switched off and decoratorActive, true at mount, followed it.
C14_Witness ==
    /\ last.op = "decoratorToggle"
    /\ ~markerEnabled
    /\ ~decoratorActive

\* C15: in every reachable state select mode is on only while pictures are
\* listed.
C15_SelectModeNeedsPictures == selectMode => Len(pictureUrls) > 0

\* Select mode is on with a picture listed and selected while the store is
\* already empty and two reloads are in flight.
C15_Witness ==
    /\ selectMode
    /\ selectedUrls # {}
    /\ store = {}
    /\ Len(reloads) = 2

\* What the download has settled with as far as it has: the first call's
\* result, or the result the call awaited at line 74 settled with.
Outcome == IF pc = "done" THEN returned ELSE retryResult

\* C16: once IModelDownloader is unmounted, no step changes progress or
\* indeterminate or calls onDownloaded, however and whenever the download
\* ends; every progress callback then gets false from handleProgress, and a
\* callback that finds the downloader assigned has requestCancel() called on
\* it; and a false is never lost to the call it was returned to:
\* requestCancel() was called, or canceled is set, or the callback that will
\* set it is suspended at line 41.
C16_NothingAppliedAfterUnmount ==
    [][~isMounted
           => /\ UNCHANGED <<progress, indeterminate, onDownloadedArg>>
              /\ dlast'.op = "progress"
                  => /\ ~dlast'.ret
                     /\ refused'
                     /\ downloader => cancelRequested'
              /\ refused' => (cancelRequested' \/ canceled' \/ cancelYielded' > 0)
      ]_vars

\* Unmounted, not cancelled by the user: a progress callback requested the
\* cancellation, the download succeeded all the same, fetchIModel resumed and
\* onDownloaded was not called.
C16_Witness ==
    /\ ~isMounted
    /\ ~canceledRef
    /\ refused
    /\ cancelRequested
    /\ returned = "briefcase"
    /\ fetched
    /\ onDownloadedArg = "notCalled"

C18_RetryOrPresent ==
    /\ [](/\ (caught = "FileAlreadyExists" /\ pc \notin {"done", "retried"})
              => (pc \in RetryPcs /\ ~alerted /\ returned = "pending")
          /\ pc \in RetryPcs => caught = "FileAlreadyExists"
          /\ dlast.op = "retry"
              => (pc = "requesting" /\ caught = "none" /\ ~downloader /\ ~canceled
                  /\ retrying = depth /\ depth > 0 /\ returned = "pending")
          /\ (pc \in {"done", "retried"}
              /\ (\/ caught \in {"FileAlreadyExists", "OtherBentley", "NotBentley"}
                  \/ /\ caught = "DownloadCancelled"
                     /\ ~cancelRequested
                     /\ ~canceled))
              => (alerted /\ Outcome = "undefined")
          /\ (pc \in {"done", "retried"} /\ caught = "none") => ~alerted
          /\ returned \in {"pending", "briefcase", "undefined"}
          /\ retryResult \in {"pending", "briefcase", "undefined"}
          /\ pc = "done" <=> returned # "pending"
          /\ pc = "done" => retrying = 0)
    /\ [][/\ dlast'.op = "retry" => pc = "deleting"
          /\ dlast'.op = "retryReturned"
              => /\ Outcome' = retryResult
                 /\ alerted' = alerted
                 /\ retrying' = retrying - 1
      ]_vars

\* The first call failed with FileAlreadyExists, the leftover briefcase was
\* deleted, the retry downloaded the briefcase and the first call returned
\* it.
C18_Witness ==
    /\ depth = 1
    /\ pc = "done"
    /\ dlast.op = "retryReturned"
    /\ caught = "none"
    /\ returned = "briefcase"
    /\ ~alerted

=============================================================================
